---- MODULE Spec2Model ----
(***************************************************************************)
(* Counting finite Dynkin (lambda) systems: a model of dynkin.c.           *)
(*                                                                         *)
(* A subset of the ground set is a natural number read as a bit pattern,   *)
(* a Bitset is the set of the subset indices whose bit is set.             *)
(*                                                                         *)
(*   SpecClosure   extend_closure, one dequeue per step, in queue order    *)
(*   SpecAnyOrder  the same propagation, dequeuing in any order            *)
(*   SpecSearch    inner, one loop iteration per step, on an explicit      *)
(*                 stack of frames, called serially or by a worker of main *)
(*   Spec          main: the loop over n and the parallel top level        *)
(***************************************************************************)
EXTENDS Integers, Sequences, FiniteSets

VARIABLES
    n,              \* main: the ground-set size of the current round
    omega,          \* the full subset, (1 << n) - 1
    included,       \* extend_closure: argument
    excluded,       \* extend_closure: argument
    extension,      \* extend_closure: argument
    closure,        \* extend_closure: the out-parameter being built
    queue,          \* extend_closure: queue[0 .. qe-1], qe = Len(queue)
    qs,             \* extend_closure: number of dequeues so far
    taken,          \* extend_closure: the queue positions already dequeued
    ecpc,           \* extend_closure: "idle", "loop", "return1", "return0"
    stack,          \* inner: the frames of the active calls, innermost last
    mode,           \* inner: who made the outermost call
    result,         \* inner: the value the outermost call returned, or -1
    root_excluded,  \* main: the precomputed array, root_excluded[m] at m + 1
    todo,           \* main: top-level iterations not yet handed to a thread
    cur,            \* main: the iteration each thread is running, 0 if none
    priv,           \* main: each thread's private copy of total
    total,          \* main: the reduction target
    out,            \* main: the lines printed so far, <<n, count>> each
    pc              \* main: "begin", "parallel", "done"; "off" elsewhere

ecvars == <<included, excluded, extension, closure, queue, qs, taken, ecpc>>
searchvars == <<stack, mode, result>>
mainvars == <<root_excluded, todo, cur, priv, total, out, pc>>
vars == <<n, omega, ecvars, searchvars, mainvars>>

(***************************************************************************)
(* Bounds of the model.                                                    *)
(***************************************************************************)
MaxN == 3           \* main runs n = 0 .. MaxN
MaxClosureN == 3    \* extend_closure is called with n = 0 .. MaxClosureN
MaxExcluded == 2    \* ... and with at most this many subsets excluded
MaxSearchN == 4     \* inner is stepped for n = 1 .. MaxSearchN
NumThreads == 2     \* threads of the parallel region

(***************************************************************************)
(* Program constants.                                                      *)
(***************************************************************************)
MAX_N == 7
WordBits == 64
MAX_SUBSETS == 2 ^ MAX_N
BITSET_WORDS == MAX_SUBSETS \div WordBits

(***************************************************************************)
(* Bit operations on subset indices.                                       *)
(***************************************************************************)
RECURSIVE BitAnd(_, _)
BitAnd(x, y) ==
    IF x = 0 \/ y = 0 THEN 0
    ELSE (x % 2) * (y % 2) + 2 * BitAnd(x \div 2, y \div 2)

RECURSIVE BitOr(_, _)
BitOr(x, y) ==
    IF x = 0 THEN y
    ELSE IF y = 0 THEN x
    ELSE (IF x % 2 = 1 \/ y % 2 = 1 THEN 1 ELSE 0) + 2 * BitOr(x \div 2, y \div 2)

RECURSIVE BitXor(_, _)
BitXor(x, y) ==
    IF x = 0 THEN y
    ELSE IF y = 0 THEN x
    ELSE (((x % 2) + (y % 2)) % 2) + 2 * BitXor(x \div 2, y \div 2)

Omega(k) == IF k > 0 THEN 2 ^ k - 1 ELSE 0

Limit(om) == (om + 1) \div 2

\* main: bs_clear; bs_set(0); bs_set(omega)
Base(om) == {0, om}

(***************************************************************************)
(* The Dynkin axioms, stated directly: the reference for the counts.       *)
(***************************************************************************)
ComplementClosed(D, om) == \A s \in D : BitXor(om, s) \in D

DisjointUnionClosed(D) ==
    \A x \in D : \A y \in D : BitAnd(x, y) = 0 => BitOr(x, y) \in D

IsDynkin(D, om) == 0 \in D /\ ComplementClosed(D, om) /\ DisjointUnionClosed(D)

ReferenceFamilies(om) == {D \in SUBSET (0 .. om) : IsDynkin(D, om)}

\* The least family above F closed under both rules, by plain iteration.
RECURSIVE LeastClosure(_, _)
LeastClosure(F, om) ==
    LET G == F \cup {BitXor(om, s) : s \in F}
               \cup {BitOr(p[1], p[2]) :
                       p \in {q \in F \X F : BitAnd(q[1], q[2]) = 0}}
    IN IF G = F THEN F ELSE LeastClosure(G, om)

(***************************************************************************)
(* extend_closure.  The state of one call is [closure, queue, ok]; ok      *)
(* turns FALSE at a `return 0`.                                            *)
(***************************************************************************)
\* Variant: the bs_copy from included is forgotten.
InitClosureNoCopy(inc, ext) ==
    [closure |-> {ext}, queue |-> <<ext>>, ok |-> TRUE]

\* bs_copy(closure, included); bs_set(closure, extension); queue[qe++] = extension
InitClosure(inc, ext) ==
    [closure |-> inc \cup {ext}, queue |-> <<ext>>, ok |-> TRUE]

\* Variant: the subset is added without looking at excluded.
AddSubsetUnchecked(st, z, exc) ==
    IF z \in st.closure THEN st
    ELSE [st EXCEPT !.closure = @ \cup {z}, !.queue = Append(@, z)]

\* Variant: the subset is added and queued even when its bit is already set.
AddSubsetAlways(st, z, exc) ==
    IF z \in exc THEN [st EXCEPT !.ok = FALSE]
    ELSE [st EXCEPT !.closure = @ \cup {z}, !.queue = Append(@, z)]

\* if (!bs_get(closure, z)) { if (bs_get(excluded, z)) return 0;
\*                            bs_set(closure, z); queue[qe++] = z; }
AddSubset(st, z, exc) ==
    IF z \in st.closure THEN st
    ELSE IF z \in exc THEN [st EXCEPT !.ok = FALSE]
    ELSE [st EXCEPT !.closure = @ \cup {z}, !.queue = Append(@, z)]

\* The bits of one 64-bit word of a Bitset, as subset indices.
WordOf(bs, w) == {y \in bs : y \div WordBits = w}

\* while (word) { bit = ctz(word); word &= word - 1; ... }: ascending from
\* bit over the word as it was read before the scan.
RECURSIVE ScanWord(_, _, _, _, _)
ScanWord(x, word, bit, st, exc) ==
    IF word = {} \/ ~st.ok THEN st
    ELSE IF bit \notin word THEN ScanWord(x, word, bit + 1, st, exc)
    ELSE ScanWord(x, word \ {bit}, bit + 1,
                  IF BitAnd(x, bit) = 0 THEN AddSubset(st, BitOr(x, bit), exc)
                  ELSE st,
                  exc)

\* for (w = 0; w < BITSET_WORDS; ++w) { word = closure->bits[w]; ... }
RECURSIVE ScanWords(_, _, _, _)
ScanWords(x, w, st, exc) ==
    IF w >= BITSET_WORDS \/ ~st.ok THEN st
    ELSE ScanWords(x, w + 1,
                   ScanWord(x, WordOf(st.closure, w), w * WordBits, st, exc),
                   exc)

\* Variant: the complement rule is left out.
ProcessNoComplement(om, x, st, exc) == ScanWords(x, 0, st, exc)

\* Variant: the scan pairs x only with the subsets above it.
RECURSIVE ScanAbove(_, _, _, _, _)
ScanAbove(x, word, bit, st, exc) ==
    IF word = {} \/ ~st.ok THEN st
    ELSE IF bit \notin word THEN ScanAbove(x, word, bit + 1, st, exc)
    ELSE ScanAbove(x, word \ {bit}, bit + 1,
                   IF BitAnd(x, bit) = 0 /\ bit > x
                   THEN AddSubset(st, BitOr(x, bit), exc) ELSE st,
                   exc)

ProcessScanAbove(om, x, st, exc) ==
    LET s1 == AddSubset(st, BitXor(om, x), exc)
    IN IF ~s1.ok THEN s1 ELSE ScanAbove(x, s1.closure, 0, s1, exc)

\* One pass of the while (qs < qe) body for the dequeued x.
ProcessOne(om, x, st, exc) ==
    LET s1 == AddSubset(st, BitXor(om, x), exc)
    IN IF ~s1.ok THEN s1 ELSE ScanWords(x, 0, s1, exc)

RECURSIVE RunQueue(_, _, _, _)
RunQueue(om, st, k, exc) ==
    IF ~st.ok \/ k >= Len(st.queue) THEN st
    ELSE RunQueue(om, ProcessOne(om, st.queue[k + 1], st, exc), k + 1, exc)

\* The whole call: [ok |-> the return value, closure |-> the out-parameter].
ExtendClosure(om, inc, ext, exc) == RunQueue(om, InitClosure(inc, ext), 0, exc)

(***************************************************************************)
(* extend_closure as a state machine: one dequeue per step.                *)
(***************************************************************************)
ExcludedInputs(om) == {E \in SUBSET (0 .. om) : Cardinality(E) <= MaxExcluded}

SearchIdle == stack = <<>> /\ mode = "off" /\ result = -1

MainIdle ==
    /\ root_excluded = <<>>
    /\ todo = {}
    /\ cur = [t \in 1 .. NumThreads |-> 0]
    /\ priv = [t \in 1 .. NumThreads |-> 0]
    /\ total = 0
    /\ out = <<>>
    /\ pc = "off"

\* A call about to be made: included is a Dynkin system over 0 .. omega.
ClosureInit ==
    /\ n \in 0 .. MaxClosureN
    /\ omega = Omega(n)
    /\ included \in ReferenceFamilies(omega)
    /\ excluded \in ExcludedInputs(omega)
    /\ extension \in 0 .. omega
    /\ closure = {}
    /\ queue = <<>>
    /\ qs = 0
    /\ taken = <<>>
    /\ ecpc = "call"
    /\ SearchIdle
    /\ MainIdle

\* extend_closure is not running on its own.
ClosureIdle ==
    /\ excluded = {}
    /\ extension = 0
    /\ closure = {}
    /\ queue = <<>>
    /\ qs = 0
    /\ taken = <<>>
    /\ ecpc = "idle"

\* Lines 48-53.
EnterClosure ==
    /\ ecpc = "call"
    /\ LET st == InitClosure(included, extension)
       IN /\ closure' = st.closure
          /\ queue' = st.queue
    /\ ecpc' = "loop"
    /\ UNCHANGED <<n, omega, included, excluded, extension, qs, taken,
                   searchvars, mainvars>>

\* The body of while (qs < qe) for the queue position i (counted from 1).
DequeueAt(i) ==
    LET st == ProcessOne(omega, queue[i],
                         [closure |-> closure, queue |-> queue, ok |-> TRUE],
                         excluded)
    IN /\ closure' = st.closure
       /\ queue' = st.queue
       /\ qs' = qs + 1
       /\ taken' = Append(taken, i)
       /\ ecpc' = IF st.ok THEN "loop" ELSE "return0"
       /\ UNCHANGED <<n, omega, included, excluded, extension,
                      searchvars, mainvars>>

\* x = queue[qs++]
Dequeue ==
    /\ ecpc = "loop"
    /\ qs < Len(queue)
    /\ DequeueAt(qs + 1)

\* The propagation with the queued subsets taken in any order.
DequeueAny ==
    /\ ecpc = "loop"
    /\ qs < Len(queue)
    /\ \E i \in 1 .. Len(queue) :
          /\ \A j \in 1 .. Len(taken) : taken[j] # i
          /\ DequeueAt(i)

\* qs = qe: return 1
LoopExit ==
    /\ ecpc = "loop"
    /\ qs >= Len(queue)
    /\ ecpc' = "return1"
    /\ UNCHANGED <<n, omega, included, excluded, extension, closure, queue,
                   qs, taken, searchvars, mainvars>>

ClosureNext == EnterClosure \/ Dequeue \/ LoopExit

SpecClosure == ClosureInit /\ [][ClosureNext]_vars

AnyOrderNext == EnterClosure \/ DequeueAny \/ LoopExit

SpecAnyOrder == ClosureInit /\ [][AnyOrderNext]_vars

\* What the two rules force into the closure beyond included and extension.
Forced == LeastClosure(included \cup {extension}, omega)

ForcedNew == Forced \ (included \cup {extension})

QueueSet == {queue[i] : i \in 1 .. Len(queue)}

\* C4: with the queued subsets processed in any order, the call succeeds
\* exactly when none of the subsets the two rules force beyond included and
\* the extension is excluded (so the result does not depend on the order),
\* and on success the closure is the least family above included and the
\* extension that is closed under complement and disjoint union.
C4_OrderIndependentLeastClosure ==
    /\ ecpc = "return1" => closure = Forced /\ ForcedNew \cap excluded = {}
    /\ ecpc = "return0" => ForcedNew \cap excluded # {}

\* A successful call that added several subsets and did not dequeue in
\* queue order.
C4_Witness ==
    /\ ecpc = "return1"
    /\ Cardinality(closure \ included) >= 4
    /\ \E j \in 1 .. Len(taken) - 1 : taken[j] > taken[j + 1]

\* C5: a successful extend_closure returns a family closed under complement
\* and under union of disjoint members.
C5_ClosureIsDynkinClosed ==
    ecpc = "return1" =>
        /\ ComplementClosed(closure, omega)
        /\ DisjointUnionClosed(closure)

\* A success in which two newly added subsets are disjoint.
C5_Witness ==
    /\ ecpc = "return1"
    /\ \E x \in closure \ included : \E y \in closure \ included :
          x # y /\ x # 0 /\ y # 0 /\ BitAnd(x, y) = 0 /\ BitOr(x, y) # omega

\* C6: extending by a subset that is already included succeeds and returns
\* included unchanged, for every excluded disjoint from included.
C6_Idempotent ==
    (extension \in included /\ included \cap excluded = {}) =>
        /\ ecpc # "return0"
        /\ ecpc \in {"loop", "return1"} => closure = included
        /\ ecpc = "return1" => queue = <<extension>>

C6_Witness ==
    /\ ecpc = "return1"
    /\ extension \in included
    /\ extension \notin {0, omega}
    /\ excluded # {}
    /\ included \cap excluded = {}
    /\ closure = included

C10_QueueBounded ==
    /\ Len(queue) <= 2 ^ n
    /\ 2 ^ n <= MAX_SUBSETS
    /\ Len(taken) = qs
    /\ qs <= Len(queue)
    /\ \A i \in 1 .. Len(queue) : \A j \in 1 .. Len(queue) :
          queue[i] = queue[j] => i = j
    /\ \A i \in 2 .. Len(queue) : queue[i] \notin included
    /\ Len(queue) >= 1 => queue[1] = extension
    /\ QueueSet \subseteq closure
    /\ closure \subseteq 0 .. omega

\* A call that filled the whole of 0 .. omega by propagation.
C10_Witness ==
    /\ ecpc = "return1"
    /\ n = MaxClosureN
    /\ closure = 0 .. omega
    /\ Len(queue) >= 2 ^ n - 4
    /\ qs = Len(queue)

(***************************************************************************)
(* inner and the body of main's top-level loop, as operators.              *)
(***************************************************************************)
\* Variant: m and its complement are not excluded after the include branch.
RECURSIVE InnerLoopNoExclude(_, _, _, _, _)
InnerLoopNoExclude(om, m, inc, exc, count) ==
    IF m >= Limit(om) THEN count
    ELSE IF m \in inc \/ m \in exc
    THEN InnerLoopNoExclude(om, m + 1, inc, exc, count)
    ELSE LET r == ExtendClosure(om, inc, m, exc)
             sub == IF r.ok THEN InnerLoopNoExclude(om, m + 1, r.closure, exc, 1)
                    ELSE 0
         IN InnerLoopNoExclude(om, m + 1, inc, exc, count + sub)

InnerNoExclude(om, lb, inc, exc) == InnerLoopNoExclude(om, lb, inc, exc, 1)

\* for (m = ...; m < limit; ++m) of inner, from m on, with the running count;
\* excluded is updated in place, the recursive call gets copies.
RECURSIVE InnerLoop(_, _, _, _, _)
InnerLoop(om, m, inc, exc, count) ==
    IF m >= Limit(om) THEN count
    ELSE IF m \in inc \/ m \in exc THEN InnerLoop(om, m + 1, inc, exc, count)
    ELSE LET r == ExtendClosure(om, inc, m, exc)
             sub == IF r.ok THEN InnerLoop(om, m + 1, r.closure, exc, 1) ELSE 0
         IN InnerLoop(om, m + 1, inc, exc \cup {m, BitXor(om, m)}, count + sub)

\* inner(omega, lb, included, excluded)
Inner(om, lb, inc, exc) == InnerLoop(om, lb, inc, exc, 1)

\* The systems inner counts, in the order it counts them: InnerLoop with
\* every 1 it counts replaced by the included set that 1 stands for.
RECURSIVE CountedLoop(_, _, _, _, _)
CountedLoop(om, m, inc, exc, counted) ==
    IF m >= Limit(om) THEN counted
    ELSE IF m \in inc \/ m \in exc THEN CountedLoop(om, m + 1, inc, exc, counted)
    ELSE LET r == ExtendClosure(om, inc, m, exc)
             sub == IF r.ok
                    THEN CountedLoop(om, m + 1, r.closure, exc, <<r.closure>>)
                    ELSE <<>>
         IN CountedLoop(om, m + 1, inc, exc \cup {m, BitXor(om, m)}, counted \o sub)

Counted(om, lb, inc, exc) == CountedLoop(om, lb, inc, exc, <<inc>>)

\* root_excluded[m] of main
RECURSIVE RootExcludedAt(_, _)
RootExcludedAt(om, m) ==
    IF m = 0 THEN {}
    ELSE RootExcludedAt(om, m - 1) \cup {m, BitXor(om, m)}

\* Variant: the array is filled one iteration ahead.
RootExcludedShifted(om) == [i \in 1 .. Limit(om) |-> RootExcludedAt(om, i)]

\* The array root_excluded[0 .. limit-1], root_excluded[m] at position m + 1.
RootExcluded(om) == [i \in 1 .. Limit(om) |-> RootExcludedAt(om, i - 1)]

NoCall == [call |-> FALSE, lb |-> 0, included |-> {}, excluded |-> {}]

\* Variant: the body reads root_excluded[m] instead of root_excluded[m - 1].
WorkerCallNextExcluded(om, inc, rex, m) ==
    LET ex_here == IF m + 1 <= Len(rex) THEN rex[m + 1]
                   ELSE rex[m] \cup {m, BitXor(om, m)}
    IN IF m \in inc \/ m \in ex_here THEN NoCall
       ELSE LET r == ExtendClosure(om, inc, m, ex_here)
            IN IF r.ok
               THEN [call |-> TRUE, lb |-> m + 1, included |-> r.closure,
                     excluded |-> ex_here \cup {m, BitXor(om, m)}]
               ELSE NoCall

\* The body of main's parallel loop for m, up to the call of inner: the
\* arguments it passes, or no call (m skipped, or a contradiction).
WorkerCall(om, inc, rex, m) ==
    LET ex_here == rex[m]
    IN IF m \in inc \/ m \in ex_here THEN NoCall
       ELSE LET r == ExtendClosure(om, inc, m, ex_here)
            IN IF r.ok
               THEN [call |-> TRUE, lb |-> m + 1, included |-> r.closure,
                     excluded |-> ex_here \cup {m, BitXor(om, m)}]
               ELSE NoCall

\* What iteration m adds to its thread's total.
WorkerContribution(om, inc, rex, m) ==
    LET c == WorkerCall(om, inc, rex, m)
    IN IF c.call THEN Inner(om, c.lb, c.included, c.excluded) ELSE 0

(***************************************************************************)
(* inner as a state machine: one loop iteration per step.  A frame is one  *)
(* active call; the frames below the top wait in their iteration m for the *)
(* recursive call to return.                                               *)
(***************************************************************************)
Frame(lb, inc, exc) == [m |-> lb, included |-> inc, excluded |-> exc, count |-> 1]

SearchInit ==
    /\ n \in 1 .. MaxSearchN
    /\ omega = Omega(n)
    /\ included = Base(omega)
    /\ root_excluded = RootExcluded(omega)
    /\ stack = <<>>
    /\ mode = "start"
    /\ result = -1
    /\ ClosureIdle
    /\ todo = {}
    /\ cur = [t \in 1 .. NumThreads |-> 0]
    /\ priv = [t \in 1 .. NumThreads |-> 0]
    /\ total = 0
    /\ out = <<>>
    /\ pc = "off"

Top == stack[Len(stack)]

SetTop(f) == [stack EXCEPT ![Len(stack)] = f]

\* The fully serial run: inner(omega, 1, {0, omega}, empty).
SerialCall ==
    /\ mode = "start"
    /\ stack' = <<Frame(1, Base(omega), {})>>
    /\ mode' = "serial"
    /\ UNCHANGED <<result, n, omega, ecvars, mainvars>>

\* One iteration m of main's top-level loop, up to its call of inner.
WorkerDispatch ==
    /\ mode = "start"
    /\ \E m \in 1 .. Limit(omega) - 1 :
          LET c == WorkerCall(omega, included, root_excluded, m)
          IN /\ stack' = IF c.call
                         THEN <<Frame(c.lb, c.included, c.excluded)>>
                         ELSE <<>>
             /\ result' = IF c.call THEN -1 ELSE 0
    /\ mode' = "worker"
    /\ UNCHANGED <<n, omega, ecvars, mainvars>>

\* if (bs_get(included, m) || bs_get(excluded, m)) continue;
LoopSkip ==
    /\ stack # <<>>
    /\ Top.m < Limit(omega)
    /\ Top.m \in Top.included \/ Top.m \in Top.excluded
    /\ stack' = SetTop([Top EXCEPT !.m = @ + 1])
    /\ UNCHANGED <<mode, result, n, omega, ecvars, mainvars>>

\* extend_closure succeeded: the recursive call, on copies.
LoopInclude ==
    /\ stack # <<>>
    /\ Top.m < Limit(omega)
    /\ Top.m \notin Top.included /\ Top.m \notin Top.excluded
    /\ LET r == ExtendClosure(omega, Top.included, Top.m, Top.excluded)
       IN /\ r.ok
          /\ stack' = Append(stack, Frame(Top.m + 1, r.closure, Top.excluded))
    /\ UNCHANGED <<mode, result, n, omega, ecvars, mainvars>>

\* extend_closure reported a contradiction: exclude m and go on.
LoopContradiction ==
    /\ stack # <<>>
    /\ Top.m < Limit(omega)
    /\ Top.m \notin Top.included /\ Top.m \notin Top.excluded
    /\ ~ExtendClosure(omega, Top.included, Top.m, Top.excluded).ok
    /\ stack' = SetTop([Top EXCEPT !.excluded = @ \cup {Top.m, BitXor(omega, Top.m)},
                                   !.m = @ + 1])
    /\ UNCHANGED <<mode, result, n, omega, ecvars, mainvars>>

\* return count; the caller adds it, excludes its m and goes on.
LoopReturn ==
    /\ stack # <<>>
    /\ Top.m >= Limit(omega)
    /\ IF Len(stack) = 1
       THEN /\ stack' = <<>>
            /\ result' = Top.count
       ELSE LET caller == stack[Len(stack) - 1]
            IN /\ stack' = [SubSeq(stack, 1, Len(stack) - 1)
                               EXCEPT ![Len(stack) - 1] =
                                 [caller EXCEPT
                                    !.count = @ + Top.count,
                                    !.excluded = @ \cup {caller.m, BitXor(omega, caller.m)},
                                    !.m = @ + 1]]
               /\ UNCHANGED result
    /\ UNCHANGED <<mode, n, omega, ecvars, mainvars>>

SearchNext ==
    \/ SerialCall
    \/ WorkerDispatch
    \/ LoopSkip
    \/ LoopInclude
    \/ LoopContradiction
    \/ LoopReturn

SpecSearch == SearchInit /\ [][SearchNext]_vars

\* Consistency of the two forms of inner: the stepped serial run returns
\* what the operator Inner computes.
SearchAgreesWithInner ==
    (mode = "serial" /\ result # -1) => result = Inner(omega, 1, Base(omega), {})

\* C7: no frame of inner, and no pair main passes to inner, has a subset
\* both included and excluded.  (The body of main's loop excludes m and its
\* complement in the set it passes along with a closure that includes both.)
C7_IncludedExcludedDisjoint ==
    \A i \in 1 .. Len(stack) : stack[i].included \cap stack[i].excluded = {}

\* C9: the excluded set the serial run holds in its top-level iteration m is
\* root_excluded[m-1], which is the subsets k and omega XOR k for
\* 1 <= k < m; and no top-level m is included or excluded when its worker
\* reads root_excluded[m-1].
C9_RootExcludedIsSerialPrefix ==
    /\ (mode = "serial" /\ stack # <<>> /\ stack[1].m < Limit(omega)) =>
          /\ stack[1].excluded = root_excluded[stack[1].m]
          /\ stack[1].excluded =
                {k : k \in 1 .. stack[1].m - 1}
                   \cup {BitXor(omega, k) : k \in 1 .. stack[1].m - 1}
    /\ \A m \in 1 .. Limit(omega) - 1 :
          m \notin included /\ m \notin root_excluded[m]

\* The serial run in a top-level iteration after the first, inside a
\* recursive call.
C9_Witness ==
    /\ mode = "serial"
    /\ Len(stack) >= 2
    /\ stack[1].m >= 3
    /\ stack[1].m < Limit(omega)

(***************************************************************************)
(* main: the loop over n, and the parallel top-level loop.  A thread takes *)
(* an iteration the schedule hands it, runs its body on private data and   *)
(* adds the subtree count to its private copy of total; the copies are     *)
(* combined into total when the region ends.                               *)
(***************************************************************************)
Threads == 1 .. NumThreads

RECURSIVE SumUpTo(_, _)
SumUpTo(f, k) == IF k = 0 THEN 0 ELSE f[k] + SumUpTo(f, k - 1)

\* Variant: the last thread's private copy is lost.
ReduceDropLast(tot, pv) == tot + SumUpTo(pv, NumThreads - 1)

\* reduction(+ : total): the private copies are added to the original.
Reduce(tot, pv) == tot + SumUpTo(pv, NumThreads)

\* Variant: the trivial system is not counted.
FinalTotalNoTrivial(tot) == tot

\* total += 1: the "no more subsets" choice
FinalTotal(tot) == tot + 1

Init ==
    /\ n = 0
    /\ omega = 0
    /\ included = {}
    /\ root_excluded = <<>>
    /\ todo = {}
    /\ cur = [t \in Threads |-> 0]
    /\ priv = [t \in Threads |-> 0]
    /\ total = 0
    /\ out = <<>>
    /\ pc = "begin"
    /\ ClosureIdle
    /\ SearchIdle

NextRound == IF n + 1 <= MaxN /\ n + 1 <= MAX_N THEN "begin" ELSE "done"

\* A round whose limit is 0: only the trivial system, printed at once.
TrivialRound ==
    /\ pc = "begin"
    /\ Limit(Omega(n)) = 0
    /\ omega' = Omega(n)
    /\ included' = Base(Omega(n))
    /\ out' = Append(out, <<n, 1>>)
    /\ n' = n + 1
    /\ pc' = NextRound
    /\ UNCHANGED <<root_excluded, todo, cur, priv, total,
                   excluded, extension, closure, queue, qs, taken, ecpc,
                   searchvars>>

\* The serial part of a round, up to the parallel region.
BeginRound ==
    /\ pc = "begin"
    /\ Limit(Omega(n)) # 0
    /\ omega' = Omega(n)
    /\ included' = Base(Omega(n))
    /\ root_excluded' = RootExcluded(Omega(n))
    /\ total' = 0
    /\ todo' = 1 .. Limit(Omega(n)) - 1
    /\ priv' = [t \in Threads |-> 0]
    /\ pc' = "parallel"
    /\ UNCHANGED <<n, cur, out,
                   excluded, extension, closure, queue, qs, taken, ecpc,
                   searchvars>>

\* schedule(dynamic): an idle thread is handed an iteration.
TakeIteration(t) ==
    /\ pc = "parallel"
    /\ cur[t] = 0
    /\ \E m \in todo :
          /\ cur' = [cur EXCEPT ![t] = m]
          /\ todo' = todo \ {m}
    /\ UNCHANGED <<n, omega, included, root_excluded, priv, total, out, pc,
                   excluded, extension, closure, queue, qs, taken, ecpc,
                   searchvars>>

\* WorkerContribution for every round k and iteration m, tabulated: the body
\* reads only omega, its firstprivate copy of included and the read-only
\* root_excluded, which are the same for every thread of a round.
BodyTable ==
    [k \in 1 .. MaxN |->
        [m \in 1 .. Limit(Omega(k)) - 1 |->
            WorkerContribution(Omega(k), Base(Omega(k)), RootExcluded(Omega(k)), m)]]

\* total += inner(...) of the body for m, if the body gets there.
BodyAdds(m) ==
    IF omega = Omega(n) /\ included = Base(omega)
          /\ root_excluded = RootExcluded(omega)
    THEN BodyTable[n][m]
    ELSE WorkerContribution(omega, included, root_excluded, m)

\* The loop body for the thread's iteration.
RunIteration(t) ==
    /\ pc = "parallel"
    /\ cur[t] # 0
    /\ priv' = [priv EXCEPT ![t] = @ + BodyAdds(cur[t])]
    /\ cur' = [cur EXCEPT ![t] = 0]
    /\ UNCHANGED <<n, omega, included, root_excluded, todo, total, out, pc,
                   excluded, extension, closure, queue, qs, taken, ecpc,
                   searchvars>>

\* The end of the region, total += 1 and the printf.
EndRound ==
    /\ pc = "parallel"
    /\ todo = {}
    /\ \A t \in Threads : cur[t] = 0
    /\ total' = FinalTotal(Reduce(total, priv))
    /\ out' = Append(out, <<n, total'>>)
    /\ n' = n + 1
    /\ pc' = NextRound
    /\ UNCHANGED <<omega, included, root_excluded, todo, cur, priv,
                   excluded, extension, closure, queue, qs, taken, ecpc,
                   searchvars>>

Next ==
    \/ TrivialRound
    \/ BeginRound
    \/ \E t \in Threads : TakeIteration(t)
    \/ \E t \in Threads : RunIteration(t)
    \/ EndRound

Spec == Init /\ [][Next]_vars

\* The count printed for the ground-set size k, if its line is out.
Printed(k) == {out[i][2] : i \in {j \in 1 .. Len(out) : out[j][1] = k}}

\* The systems a round of main counts for the ground-set size k: those of
\* the iterations m = 1 .. limit - 1 and, for the final 1, the base family.
RECURSIVE RoundCountedUpTo(_, _)
RoundCountedUpTo(om, m) ==
    IF m <= 0 THEN <<>>
    ELSE LET c == WorkerCall(om, Base(om), RootExcluded(om), m)
         IN RoundCountedUpTo(om, m - 1)
               \o (IF c.call THEN Counted(om, c.lb, c.included, c.excluded)
                   ELSE <<>>)

RoundCounted(k) ==
    IF Limit(Omega(k)) = 0 THEN <<Base(Omega(k))>>
    ELSE RoundCountedUpTo(Omega(k), Limit(Omega(k)) - 1) \o <<Base(Omega(k))>>

\* A line has just been printed: <<n, count>>.
JustPrinted == pc \in {"begin", "done"} /\ out # <<>>

LastLine == out[Len(out)]

\* C1: every count is, when it is printed, the number of families over
\* 0 .. omega that contain 0 and are closed under complement and disjoint
\* union, found by enumerating all families; it is 1 for n = 0 and n = 1;
\* the systems counted are those families, each counted once.
C1_CountIsNumberOfDynkinSystems ==
    JustPrinted =>
        LET ref == ReferenceFamilies(Omega(LastLine[1]))
            sys == RoundCounted(LastLine[1])
        IN /\ LastLine[1] = Len(out) - 1
           /\ LastLine[2] = Cardinality(ref)
           /\ LastLine[1] \in {0, 1} => LastLine[2] = 1
           /\ LastLine[2] = Len(sys)
           /\ {sys[i] : i \in 1 .. Len(sys)} = ref
           /\ \A i \in 1 .. Len(sys) : \A j \in 1 .. Len(sys) :
                 sys[i] = sys[j] => i = j

C1_Witness ==
    /\ pc = "done"
    /\ Len(out) = MaxN + 1
    /\ out[Len(out)][2] > 2

\* C2 as claimed: the count printed for n = 2 is 4.
C2_Original_CountForTwoIsFour == \A c \in Printed(2) : c = 4

\* C2 amended: the count printed for n = 2 is 2.
C2_CountForTwoIsTwo == \A c \in Printed(2) : c = 2

C2_Witness == Printed(2) # {} /\ omega = 3 /\ total = 2

\* C3: whichever thread ran which top-level iteration, and in whatever
\* order, the total printed for n >= 1 is what the one serial call
\* inner(omega, 1, {0, omega}, empty) returns.
C3_ParallelEqualsSerial ==
    (JustPrinted /\ LastLine[1] >= 1) =>
        LastLine[2] = Inner(Omega(LastLine[1]), 1, Base(Omega(LastLine[1])), {})

\* A round of several iterations printed after both threads added subtree
\* counts to their private copies.
C3_Witness ==
    /\ JustPrinted
    /\ LastLine[1] >= 3
    /\ priv[1] > 0
    /\ priv[2] > 0
    /\ LastLine[2] = priv[1] + priv[2] + 1

====
